---- MODULE Spec2Model ----
(***************************************************************************)
(* Model of Weather_app.py: the forecast aggregation routine               *)
(* (summarize_forecast), the text renderer (print_forecast_summary) and    *)
(* the text-mode pipeline (main / run_cli).                                *)
(*                                                                         *)
(* Numbers: JSON temperatures are modelled as integers and the mean as an  *)
(* exact fraction <<numerator, denominator>>; statistics.mean computes the *)
(* exact rational mean and rounds it once, which is monotone, so order     *)
(* comparisons of the model carry over.                                    *)
(* Strings that the code compares with < (the date keys) are sequences of  *)
(* character codes, compared lexicographically as Python compares str.     *)
(* Coordinates are only passed on and printed, never computed with: they   *)
(* are kept as their decimal text. The model covers runs without           *)
(* --streamlit.                                                            *)
(***************************************************************************)
EXTENDS Integers, Sequences, FiniteSets, TLC

VARIABLES
    forecast_json,   \* argument of summarize_forecast
    shuffled_json,   \* the same payload with its "list" permuted (second call)
    summary,         \* return value of summarize_forecast(forecast_json)
    summary2,        \* return value of summarize_forecast(shuffled_json)
    phase,           \* "input" before the calls, "done" after; "cli" in a CLI run
    args,            \* the command line as argparse sees it
    env_key,         \* os.environ.get("OPENWEATHER_API_KEY")
    pc,              \* where the text-mode run stands
    calls,           \* the network calls made so far, with their outcome
    located,         \* run_cli's lat, lon, resolved_name
    curr,            \* run_cli's curr (the current-weather payload)
    stdout,          \* lines printed to standard output
    stderr,          \* lines printed to standard error
    saved_file,      \* content of the --save-json file, None while unwritten
    exit_code        \* the process exit status, None while running

aggVars == <<shuffled_json, summary2, phase>>

cliVars == <<args, env_key, pc, calls, located, curr, stdout, stderr,
             saved_file, exit_code>>

vars == <<forecast_json, summary, aggVars, cliVars>>

\* Longest forecast list explored.
MaxLen == 3

\* Python's None, where the other values are strings.
None == "None"

\* A variable not assigned yet (None, where the other values are structured).
Unset == [unset |-> TRUE]

----------------------------------------------------------------------------
(* Python built-ins used by the code *)

Range(s) == {s[i] : i \in 1..Len(s)}

\* list.count(x)
Count(lst, x) == Cardinality({i \in 1..Len(lst) : lst[i] = x})

\* dict.get(key) with the default None
DictGet(d, k) == IF k \in DOMAIN d THEN d[k] ELSE None

\* min(list): the first smallest element
PyMin(lst) == lst[CHOOSE i \in 1..Len(lst) :
                    /\ \A j \in 1..Len(lst) : lst[i] <= lst[j]
                    /\ \A j \in 1..(i - 1) : lst[j] > lst[i]]

\* max(list): the first largest element
PyMax(lst) == lst[CHOOSE i \in 1..Len(lst) :
                    /\ \A j \in 1..Len(lst) : lst[i] >= lst[j]
                    /\ \A j \in 1..(i - 1) : lst[j] < lst[i]]

RECURSIVE SumList(_)
SumList(lst) == IF lst = <<>> THEN 0 ELSE Head(lst) + SumList(Tail(lst))

RECURSIVE Gcd(_, _)
Gcd(a, b) == IF b = 0 THEN a ELSE Gcd(b, a % b)

Abs(x) == IF x < 0 THEN -x ELSE x

\* Fraction(n, d) in lowest terms, d > 0
Fraction(n, d) == LET g == Gcd(Abs(n), d) IN <<n \div g, d \div g>>

\* Mutant: the sum is returned undivided.
MeanUndivided(lst) == <<SumList(lst), 1>>

\* statistics.mean(list): exact sum divided by the number of elements
Mean(lst) == Fraction(SumList(lst), Len(lst))

\* The iteration orders a set object may have: hash order is not fixed by
\* the language, so every enumeration of the elements is possible.
SetOrders(S) == {o \in [1..Cardinality(S) -> S] :
                    \A i, j \in 1..Cardinality(S) : i # j => o[i] # o[j]}

\* The order in which set(lst) inserts its elements: first occurrences
RECURSIVE FirstOccurrences(_)
FirstOccurrences(lst) ==
    IF lst = <<>> THEN <<>>
    ELSE LET init == FirstOccurrences(SubSeq(lst, 1, Len(lst) - 1))
             x    == lst[Len(lst)]
         IN  IF x \in Range(init) THEN init ELSE Append(init, x)

\* What one interpreter process does when a set is iterated: a function from
\* the insertion sequence of the set to its iteration order. It is fixed
\* within a process (the same insertions give the same order) and otherwise
\* depends on the string hash seed, so it is any such function.
RECURSIVE SetIterations(_)
SetIterations(Q) ==
    IF Q = {} THEN {[q \in {} |-> q]}
    ELSE LET q == CHOOSE x \in Q : TRUE
         IN  {f @@ (q :> o) : f \in SetIterations(Q \ {q}), o \in SetOrders(Range(q))}

\* Mutant: the least frequent element is taken.
MinByCount(order, lst) ==
    order[CHOOSE i \in 1..Len(order) :
            /\ \A j \in 1..Len(order) : Count(lst, order[i]) <= Count(lst, order[j])
            /\ \A j \in 1..(i - 1) : Count(lst, order[j]) > Count(lst, order[i])]

\* max(iterable, key=lst.count): the first element, in iteration order, whose
\* count is the largest
MaxByCount(order, lst) ==
    order[CHOOSE i \in 1..Len(order) :
            /\ \A j \in 1..Len(order) : Count(lst, order[i]) >= Count(lst, order[j])
            /\ \A j \in 1..(i - 1) : Count(lst, order[j]) < Count(lst, order[i])]

\* max(set(lst), key=lst.count) in a process whose sets iterate as "iter"
MostCommon(lst, iter) == MaxByCount(iter[FirstOccurrences(lst)], lst)

----------------------------------------------------------------------------
(* datetime.utcfromtimestamp(ts).date().isoformat() *)

SecondsPerDay == 24 * 60 * 60

\* The proleptic Gregorian date of a day number counted from 1970-01-01.
CivilFromDays(days) ==
    LET z   == days + 719468
        era == z \div 146097
        doe == z - era * 146097
        yoe == (doe - doe \div 1460 + doe \div 36524 - doe \div 146096) \div 365
        doy == doe - (365 * yoe + yoe \div 4 - yoe \div 100)
        mp  == (5 * doy + 2) \div 153
        d   == doy - (153 * mp + 2) \div 5 + 1
        m   == IF mp < 10 THEN mp + 3 ELSE mp - 9
        y   == yoe + era * 400 + (IF m <= 2 THEN 1 ELSE 0)
    IN  [year |-> y, month |-> m, day |-> d]

\* utcfromtimestamp(ts).date(): the time of day is dropped, flooring
UtcDate(ts) == CivilFromDays(ts \div SecondsPerDay)

Digit(n) == 48 + n
Hyphen == <<45>>

\* date.isoformat(): "YYYY-MM-DD", as character codes
IsoFormat(date) ==
    <<Digit((date.year \div 1000) % 10), Digit((date.year \div 100) % 10),
      Digit((date.year \div 10) % 10), Digit(date.year % 10)>>
    \o Hyphen \o <<Digit(date.month \div 10), Digit(date.month % 10)>>
    \o Hyphen \o <<Digit(date.day \div 10), Digit(date.day % 10)>>

\* str < str
StrLess(a, b) ==
    \E k \in 1..(Len(b)) :
        /\ \A i \in 1..(k - 1) : i <= Len(a) /\ a[i] = b[i]
        /\ \/ k = Len(a) + 1
           \/ k <= Len(a) /\ a[k] < b[k]

RECURSIVE InsertSorted(_, _)
InsertSorted(s, x) ==
    IF s = <<>> THEN <<x>>
    ELSE IF StrLess(x, Head(s)) THEN <<x>> \o s
    ELSE <<Head(s)>> \o InsertSorted(Tail(s), x)

RECURSIVE SortList(_)
SortList(s) == IF s = <<>> THEN <<>> ELSE InsertSorted(SortList(Tail(s)), Head(s))

\* Mutant: the keys are left in insertion order.
Unsorted(keys) == keys

\* sorted(buckets.keys())
Sorted(keys) == SortList(keys)

----------------------------------------------------------------------------
(* summarize_forecast *)

\* Mutant: the payload's timezone offset is applied before bucketing.
DateKeyLocal(fj, entry) ==
    IsoFormat(UtcDate(entry.dt + DictGet(DictGet(fj, "city"), "timezone")))

\* date_key of one entry: the UTC date of entry["dt"]
DateKey(fj, entry) == IsoFormat(UtcDate(entry.dt))

\* The dict "buckets" after the first n entries: a sequence of
\* [key, temps, descs, icons] in insertion order (dicts keep it).
RECURSIVE Buckets(_, _)
Buckets(fj, n) ==
    IF n = 0 THEN <<>>
    ELSE LET prev  == Buckets(fj, n - 1)
             entry == fj.list[n]
             key   == DateKey(fj, entry)
             temp  == entry.main.temp
             desc  == entry.weather[1].description
             icon  == DictGet(entry.weather[1], "icon")
         IN  IF \E i \in 1..Len(prev) : prev[i].key = key
             THEN [i \in 1..Len(prev) |->
                     IF prev[i].key = key
                     THEN [key   |-> key,
                           temps |-> Append(prev[i].temps, temp),
                           descs |-> Append(prev[i].descs, desc),
                           icons |-> Append(prev[i].icons, icon)]
                     ELSE prev[i]]
             ELSE Append(prev, [key |-> key, temps |-> <<temp>>,
                                descs |-> <<desc>>, icons |-> <<icon>>])

BucketOf(buckets, d) == buckets[CHOOSE i \in 1..Len(buckets) : buckets[i].key = d]

\* Mutant: min_temp is the first temperature of the bucket.
DayEntryFirstTemp(b, desc, icon) ==
    [date |-> b.key, min_temp |-> b.temps[1], max_temp |-> PyMax(b.temps),
     avg_temp |-> Mean(b.temps), typical_weather |-> desc, icon |-> icon]

\* The dict appended to "summary" for one bucket
DayEntry(b, desc, icon) ==
    [date |-> b.key, min_temp |-> PyMin(b.temps), max_temp |-> PyMax(b.temps),
     avg_temp |-> Mean(b.temps), typical_weather |-> desc, icon |-> icon]

\* summary after the first n sorted keys
RECURSIVE SummaryUpTo(_, _, _, _)
SummaryUpTo(buckets, keys, n, iter) ==
    IF n = 0 THEN <<>>
    ELSE LET b == BucketOf(buckets, keys[n])
             most_common_desc == MostCommon(b.descs, iter)
             most_common_icon == IF b.icons # <<>> THEN MostCommon(b.icons, iter)
                                 ELSE None
         IN  Append(SummaryUpTo(buckets, keys, n - 1, iter),
                    DayEntry(b, most_common_desc, most_common_icon))

ItemsOf(fj) == IF "list" \in DOMAIN fj THEN fj.list ELSE <<>>

\* The sets summarize_forecast(fj) builds, by insertion sequence
SetsBuilt(fj) ==
    LET buckets == Buckets(fj, Len(ItemsOf(fj)))
    IN  UNION {{FirstOccurrences(buckets[i].descs), FirstOccurrences(buckets[i].icons)} :
                 i \in 1..Len(buckets)}

\* summarize_forecast(fj) in a process whose sets iterate as "iter"
SummarizeForecast(fj, iter) ==
    LET buckets == Buckets(fj, Len(ItemsOf(fj)))
        keys    == Sorted([i \in 1..Len(buckets) |-> buckets[i].key])
    IN  SummaryUpTo(buckets, keys, Len(keys), iter)

----------------------------------------------------------------------------
(* Inputs *)

WeatherOf(desc, icon) ==
    IF icon = None THEN <<[description |-> desc]>>
    ELSE <<[description |-> desc, icon |-> icon]>>

Sample(dt, temp, desc, icon) ==
    [dt |-> dt, main |-> [temp |-> temp], weather |-> WeatherOf(desc, icon)]

\* 3-hourly forecast entries on 2023-12-31, 2024-01-01 and 2024-02-29 (UTC);
\* two of them carry no icon.
Entries ==
    { Sample(1703980800, 10, "clear sky", "01d"),     \* 2023-12-31 00:00
      Sample(1704056400, 20, "clear sky", None),      \* 2023-12-31 21:00
      Sample(1704002400, 15, "light rain", None),     \* 2023-12-31 06:00
      Sample(1704067200, -5, "light rain", "10d"),    \* 2024-01-01 00:00
      Sample(1709208000, 7, "snow", "13d") }          \* 2024-02-29 12:00

\* city.timezone of the payload, in seconds
Timezones == {0, 19800}

Lists == UNION {[1..n -> Entries] : n \in 0..MaxLen}

Payload(lst, tz) == [list |-> lst, city |-> [timezone |-> tz]]

IsPermutation(p, n) == \A i \in 1..n : \E j \in 1..n : p[j] = i

Shuffles(lst) ==
    {[i \in 1..Len(lst) |-> lst[p[i]]] :
        p \in {q \in [1..Len(lst) -> 1..Len(lst)] : IsPermutation(q, Len(lst))}}

----------------------------------------------------------------------------
(* Reference notions used by the properties, stated on the input alone *)

\* Indices of the entries of lst whose timestamp falls on the UTC date "date"
OnDate(lst, date) == {i \in 1..Len(lst) : IsoFormat(UtcDate(lst[i].dt)) = date}

\* The distinct UTC day numbers among the timestamps of lst
DayNumbers(lst) == {lst[i].dt \div SecondsPerDay : i \in 1..Len(lst)}

TempsOn(lst, date) == {lst[i].main.temp : i \in OnDate(lst, date)}

RECURSIVE SumTemps(_, _)
SumTemps(lst, idx) ==
    IF idx = {} THEN 0
    ELSE LET i == CHOOSE k \in idx : TRUE
         IN  lst[i].main.temp + SumTemps(lst, idx \ {i})

DescCount(lst, date, x) ==
    Cardinality({i \in OnDate(lst, date) : lst[i].weather[1].description = x})

DescsOn(lst, date) == {lst[i].weather[1].description : i \in OnDate(lst, date)}

HasIcon(e) == "icon" \in DOMAIN e.weather[1]

\* Icon codes carried by the entries of one date
IconsOn(lst, date) ==
    {lst[i].weather[1].icon : i \in {k \in OnDate(lst, date) : HasIcon(lst[k])}}

IconCount(lst, date, x) ==
    Cardinality({i \in OnDate(lst, date) : HasIcon(lst[i]) /\ lst[i].weather[1].icon = x})

\* The value an entry's icon lookup yields: the code, or None when absent
IconValue(e) == IF HasIcon(e) THEN e.weather[1].icon ELSE None

IconValueCount(lst, date, x) ==
    Cardinality({i \in OnDate(lst, date) : IconValue(lst[i]) = x})

IconValuesOn(lst, date) == {IconValue(lst[i]) : i \in OnDate(lst, date)}

\* x occurs strictly more often than every other description of the date
StrictMajorityDesc(lst, date, x) ==
    /\ x \in DescsOn(lst, date)
    /\ \A y \in DescsOn(lst, date) \ {x} : DescCount(lst, date, y) < DescCount(lst, date, x)

StrictMajorityIconValue(lst, date, x) ==
    /\ x \in IconValuesOn(lst, date)
    /\ \A y \in IconValuesOn(lst, date) \ {x} :
          IconValueCount(lst, date, y) < IconValueCount(lst, date, x)

Dates(r) == {r[j].date : j \in 1..Len(r)}

----------------------------------------------------------------------------
C1_OnePerDate(fj, r) ==
    /\ Len(r) = Cardinality(DayNumbers(fj.list))
    /\ Dates(r) = {IsoFormat(UtcDate(fj.list[i].dt)) : i \in 1..Len(fj.list)}
    /\ \A j \in 1..(Len(r) - 1) : StrLess(r[j].date, r[j + 1].date)

(* C1: for every non-empty forecast list, summarize_forecast returns exactly
   one entry per distinct UTC calendar date among the timestamps, sorted
   strictly ascending by date, no date twice. *)
C1_OnePerDateSorted ==
    (phase = "done" /\ forecast_json.list # <<>>) =>
        /\ C1_OnePerDate(forecast_json, summary)
        /\ C1_OnePerDate(shuffled_json, summary2)

\* Three dates, given out of chronological order.
C1_Witness ==
    /\ phase = "done"
    /\ Len(summary) = 3
    /\ \E i \in 1..(Len(forecast_json.list) - 1) :
          forecast_json.list[i].dt > forecast_json.list[i + 1].dt

C2_Grouping(fj, r) ==
    \A i \in 1..Len(fj.list) :
        LET date == IsoFormat(UtcDate(fj.list[i].dt))
            idx  == OnDate(fj.list, date)
            temps == TempsOn(fj.list, date)
        IN  /\ Cardinality({j \in 1..Len(r) : r[j].date = date}) = 1
            /\ \A j \in 1..Len(r) :
                  r[j].date = date =>
                    /\ r[j].min_temp \in temps
                    /\ \A t \in temps : r[j].min_temp <= t
                    /\ r[j].max_temp \in temps
                    /\ \A t \in temps : r[j].max_temp >= t
                    /\ r[j].avg_temp[2] > 0
                    /\ r[j].avg_temp[1] * Cardinality(idx)
                         = SumTemps(fj.list, idx) * r[j].avg_temp[2]
                    /\ Cardinality(idx) = 1 =>
                         /\ r[j].min_temp = fj.list[i].main.temp
                         /\ r[j].max_temp = fj.list[i].main.temp
                         /\ r[j].avg_temp = <<fj.list[i].main.temp, 1>>

(* C2: every sample contributes to exactly one day summary, the one of its
   UTC date (no timezone offset applied); that summary's min, max and avg
   are the minimum, maximum and sum/count of exactly the samples of that
   date; a single-sample day has min = max = avg = the sample's
   temperature. *)
C2_GroupedByUtcDate ==
    phase = "done" =>
        /\ C2_Grouping(forecast_json, summary)
        /\ C2_Grouping(shuffled_json, summary2)

\* A payload with a timezone offset that would move one of its samples to
\* the next local date, on a date holding several samples.
C2_Witness ==
    /\ phase = "done"
    /\ \E i, k \in 1..Len(forecast_json.list) :
          /\ i # k
          /\ UtcDate(forecast_json.list[i].dt) = UtcDate(forecast_json.list[k].dt)
          /\ UtcDate(forecast_json.list[i].dt + forecast_json.city.timezone)
               # UtcDate(forecast_json.list[i].dt)
          /\ forecast_json.list[i].main.temp # forecast_json.list[k].main.temp

(* C3: every day summary has min_temp <= avg_temp <= max_temp. *)
C3_MinAvgMax ==
    phase = "done" =>
        \A j \in 1..Len(summary) :
            /\ summary[j].avg_temp[2] > 0
            /\ summary[j].min_temp * summary[j].avg_temp[2] <= summary[j].avg_temp[1]
            /\ summary[j].avg_temp[1] <= summary[j].max_temp * summary[j].avg_temp[2]

\* A day whose mean lies strictly between its minimum and maximum.
C3_Witness ==
    /\ phase = "done"
    /\ \E j \in 1..Len(summary) :
          /\ summary[j].min_temp * summary[j].avg_temp[2] < summary[j].avg_temp[1]
          /\ summary[j].avg_temp[1] < summary[j].max_temp * summary[j].avg_temp[2]

C4_Majority(fj, r) ==
    \A j \in 1..Len(r) :
        \A x \in DescsOn(fj.list, r[j].date) :
            StrictMajorityDesc(fj.list, r[j].date, x) => r[j].typical_weather = x

(* C4: majority rule: when one description occurs strictly more often than
   every other among the samples of a date, typical_weather of that date's
   summary is that description, for every ordering of the input. *)
C4_MajorityRule ==
    phase = "done" =>
        /\ C4_Majority(forecast_json, summary)
        /\ C4_Majority(shuffled_json, summary2)

\* A date with two descriptions, one of them in strict majority, summarized
\* from two different orderings.
C4_Witness ==
    /\ phase = "done"
    /\ forecast_json.list # shuffled_json.list
    /\ \E j \in 1..Len(summary) :
          /\ Cardinality(DescsOn(forecast_json.list, summary[j].date)) >= 2
          /\ \E x \in DescsOn(forecast_json.list, summary[j].date) :
                StrictMajorityDesc(forecast_json.list, summary[j].date, x)

(* C5 as stated: summarize_forecast returns identical lists for a list and
   for every permutation of it, ties for the most frequent description
   included. *)
C5_OrderIndependent == phase = "done" => summary = summary2

(* C5 amended: for a list and every permutation of it the two results have
   the same dates in the same order and the same min, max and avg; the
   typical description (icon) is the same whenever one description (icon
   value, None counted as a value) is strictly the most frequent of the
   day, and is otherwise one of the values of maximal frequency. *)
C5_OrderIndependentUpToTies ==
    phase = "done" =>
        /\ Len(summary) = Len(summary2)
        /\ \A j \in 1..Len(summary) :
              LET a == summary[j]
                  b == summary2[j]
                  lst == forecast_json.list
              IN  /\ a.date = b.date
                  /\ a.min_temp = b.min_temp
                  /\ a.max_temp = b.max_temp
                  /\ a.avg_temp = b.avg_temp
                  /\ (\E x \in DescsOn(lst, a.date) : StrictMajorityDesc(lst, a.date, x))
                        => a.typical_weather = b.typical_weather
                  /\ (\E x \in IconValuesOn(lst, a.date) :
                        StrictMajorityIconValue(lst, a.date, x))
                        => a.icon = b.icon
                  /\ \A res \in {a, b} :
                        /\ res.typical_weather \in DescsOn(lst, a.date)
                        /\ \A y \in DescsOn(lst, a.date) :
                              DescCount(lst, a.date, y)
                                <= DescCount(lst, a.date, res.typical_weather)
                        /\ res.icon \in IconValuesOn(lst, a.date)
                        /\ \A y \in IconValuesOn(lst, a.date) :
                              IconValueCount(lst, a.date, y)
                                <= IconValueCount(lst, a.date, res.icon)

\* Two different orderings of a list with a several-sample day of distinct
\* temperatures, and a tie on another or the same day left open.
C5_Witness ==
    /\ phase = "done"
    /\ forecast_json.list # shuffled_json.list
    /\ forecast_json.list[1] # shuffled_json.list[1]
    /\ \E j \in 1..Len(summary) : summary[j].min_temp < summary[j].max_temp

C6_Icon(fj, r) ==
    \A j \in 1..Len(r) :
        LET codes == IconsOn(fj.list, r[j].date)
        IN  /\ (r[j].icon = None) <=> (codes = {})
            /\ codes # {} =>
                 /\ r[j].icon \in codes
                 /\ \A y \in codes :
                       IconCount(fj.list, r[j].date, y)
                         <= IconCount(fj.list, r[j].date, r[j].icon)

(* C6 as stated: the typical icon is the most frequent icon code among the
   day's samples that carry one, and is None if and only if no sample of
   the day carries an icon code. *)
C6_IconMajorityOrNone ==
    phase = "done" => C6_Icon(forecast_json, summary)

----------------------------------------------------------------------------

\* No command-line run is under way.
CliIdle ==
    /\ args = Unset
    /\ env_key = None
    /\ pc = "idle"
    /\ calls = <<>>
    /\ located = Unset
    /\ curr = Unset
    /\ stdout = <<>>
    /\ stderr = <<>>
    /\ saved_file = Unset
    /\ exit_code = None

Init ==
    /\ \E lst \in Lists, tz \in Timezones :
         /\ forecast_json = Payload(lst, tz)
         /\ \E sh \in Shuffles(lst) : shuffled_json = Payload(sh, tz)
    /\ summary = <<>>
    /\ summary2 = <<>>
    /\ phase = "input"
    /\ CliIdle

\* summarize_forecast called, in one process, on the payload and on its
\* permutation
Summarize ==
    /\ phase = "input"
    /\ \E iter \in SetIterations(SetsBuilt(forecast_json) \cup SetsBuilt(shuffled_json)) :
          /\ summary' = SummarizeForecast(forecast_json, iter)
          /\ summary2' = SummarizeForecast(shuffled_json, iter)
    /\ phase' = "done"
    /\ UNCHANGED <<forecast_json, shuffled_json, cliVars>>

Next == Summarize

Spec == Init /\ [][Next]_vars

----------------------------------------------------------------------------
(* The report renderers *)

\* units_label of run_cli
UnitsLabel(units) ==
    IF units = "metric" THEN "degC" ELSE IF units = "imperial" THEN "degF" ELSE "K"

\* round(x, 1) of an exact fraction, as a number of tenths (ties to even)
RoundTenths(f) ==
    LET n == 10 * f[1]
        q == n \div f[2]
        r == n - q * f[2]
    IN  [tenths |-> IF 2 * r < f[2] THEN q
                    ELSE IF 2 * r > f[2] THEN q + 1
                    ELSE IF q % 2 = 0 THEN q ELSE q + 1]

\* str.capitalize(), kept symbolic
Capitalize(str) == [capitalize |-> str]

\* min(a, b)
Min2(a, b) == IF b < a THEN b ELSE a

\* lst[:n], Python's slice: a negative n counts from the end
SliceTo(lst, n) ==
    IF n >= 0 THEN SubSeq(lst, 1, Min2(n, Len(lst)))
    ELSE SubSeq(lst, 1, IF Len(lst) + n < 0 THEN 0 ELSE Len(lst) + n)

\* pretty_time_from_unix(ts, tz_shift): "YYYY-MM-DD HH:MM" of ts + tz_shift
PrettyTimeFromUnix(ts, tz_shift) ==
    LET t == ts + tz_shift
        secs == t % SecondsPerDay
        hh == secs \div 3600
        mm == (secs % 3600) \div 60
    IN  IsoFormat(UtcDate(t)) \o <<32, Digit(hh \div 10), Digit(hh % 10), 58,
                                   Digit(mm \div 10), Digit(mm % 10)>>

\* The lines print_current_weather writes
PrintCurrentWeather(current_json, units_label) ==
    << [kind |-> "current",
        name |-> DictGet(current_json, "name"),
        as_of |-> PrettyTimeFromUnix(
                     IF "dt" \in DOMAIN current_json THEN current_json.dt ELSE 0,
                     IF "timezone" \in DOMAIN current_json
                     THEN current_json.timezone ELSE 0),
        temp |-> IF "main" \in DOMAIN current_json /\ "temp" \in DOMAIN current_json.main
                 THEN <<current_json.main.temp>> ELSE <<>>,
        label |-> units_label] >>

\* The lines print_forecast_summary writes: the header, one line per day of
\* summary[:days], a blank line
PrintForecastSummary(summ, units_label, days) ==
    LET shown == SliceTo(summ, days)
    IN  << [kind |-> "forecast_header", n |-> Min2(days, Len(summ))] >>
        \o [i \in 1..Len(shown) |->
              [kind |-> "day",
               date |-> shown[i].date,
               desc |-> Capitalize(shown[i].typical_weather),
               mi |-> shown[i].min_temp,
               ma |-> shown[i].max_temp,
               av |-> RoundTenths(shown[i].avg_temp),
               label |-> units_label]]
        \o << [kind |-> "blank"] >>

----------------------------------------------------------------------------
(* The text-mode run: main and run_cli *)

\* "not x" for the values the command line can hold
Falsy(x) == x = None \/ x = ""

\* cli_key or os.environ.get("OPENWEATHER_API_KEY")
ApiKey == IF ~Falsy(args.api_key) THEN args.api_key ELSE env_key

\* --city and --lat form a mutually exclusive group: argparse rejects both
ParseArgsRejects == args.city # None /\ args.lat # None

\* Exit statuses, as the shell shows them
ExitStatus(code) == IF code = 0 THEN "0" ELSE IF code = 1 THEN "1" ELSE "2"

\* The end of a run
Exit(code) ==
    /\ exit_code' = ExitStatus(code)
    /\ pc' = "exited"

\* The except clause of run_cli: the message on stderr, sys.exit(1)
ExceptExit(e) ==
    /\ stderr' = Append(stderr, [kind |-> "error", message |-> e])
    /\ Exit(1)

ResolvedLine(loc) == [kind |-> "resolved", name |-> loc.resolved_name,
                      lat |-> loc.lat, lon |-> loc.lon]

\* main up to the first network call: parse_args, the --lat/--lon and
\* location checks, then run_cli's get_api_key (outside its try) and the
\* coordinates branch of the resolve step
Main ==
    /\ pc = "main"
    /\ IF ParseArgsRejects
       THEN /\ stderr' = Append(stderr, [kind |-> "usage", message |-> "not allowed with"])
            /\ Exit(2)
            /\ UNCHANGED <<stdout, located>>
       ELSE IF args.lat # None /\ args.lon = None
       THEN /\ stderr' = Append(stderr, [kind |-> "usage", message |-> "--lon is required"])
            /\ Exit(2)
            /\ UNCHANGED <<stdout, located>>
       ELSE IF args.lat = None /\ Falsy(args.city)
       THEN /\ stderr' = Append(stderr, [kind |-> "usage", message |-> "provide --city"])
            /\ stdout' = Append(stdout, [kind |-> "example"])
            /\ Exit(2)
            /\ UNCHANGED located
       ELSE IF Falsy(ApiKey)
       THEN \* RuntimeError raised by get_api_key, caught nowhere
            /\ stderr' = Append(stderr, [kind |-> "traceback", message |-> "RuntimeError"])
            /\ Exit(1)
            /\ UNCHANGED <<stdout, located>>
       ELSE IF args.lat # None /\ args.lon # None
       THEN /\ located' = [lat |-> args.lat, lon |-> args.lon,
                           resolved_name |-> <<args.lat, args.lon>>]
            /\ stdout' = Append(stdout, ResolvedLine(located'))
            /\ pc' = "fetch_current"
            /\ UNCHANGED <<stderr, exit_code>>
       ELSE /\ pc' = "geocode"
            /\ UNCHANGED <<stdout, stderr, located, exit_code>>
    /\ UNCHANGED <<args, env_key, calls, curr, saved_file, forecast_json, summary, aggVars>>

\* What the geocoding endpoint can answer
GeocodeResponses ==
    { [status |-> "http_error"],
      [status |-> "ok", data |-> <<>>],
      [status |-> "ok", data |-> <<[name |-> "London", country |-> "GB"]>>],
      [status |-> "ok", data |-> <<[name |-> "London", lat |-> "51.5", lon |-> "-0.1",
                                    country |-> "GB"]>>],
      [status |-> "ok", data |-> <<[name |-> "Hyderabad", lat |-> "17.4", lon |-> "78.5",
                                    state |-> "Telangana", country |-> "IN"]>>] }

\* How geocode_city ends on a response: the exception raised, or "ok"
GeocodeOutcome(resp) ==
    IF resp.status # "ok" THEN "HTTPError"
    ELSE IF resp.data = <<>> THEN "ValueError"
    ELSE IF ~({"lat", "lon"} \subseteq DOMAIN resp.data[1]) THEN "KeyError"
    ELSE "ok"

\* resolved: the non-empty ones of name, state, country, joined
ResolvedName(item) ==
    SelectSeq(<<DictGet(item, "name"), DictGet(item, "state"), DictGet(item, "country")>>,
              LAMBDA part : ~Falsy(part))

\* Mutant: an empty geocoding answer falls back to the equator instead of
\* raising.
GeocodeCityNoRaise ==
    /\ pc = "geocode"
    /\ \E resp \in GeocodeResponses :
         /\ calls' = Append(calls, [api |-> "geocode", outcome |-> GeocodeOutcome(resp)])
         /\ IF GeocodeOutcome(resp) \in {"ok", "ValueError"}
            THEN /\ located' = IF resp.data = <<>>
                               THEN [lat |-> "0.0", lon |-> "0.0", resolved_name |-> <<>>]
                               ELSE [lat |-> resp.data[1].lat, lon |-> resp.data[1].lon,
                                     resolved_name |-> ResolvedName(resp.data[1])]
                 /\ stdout' = Append(stdout, ResolvedLine(located'))
                 /\ pc' = "fetch_current"
                 /\ UNCHANGED <<stderr, exit_code>>
            ELSE /\ ExceptExit(GeocodeOutcome(resp))
                 /\ UNCHANGED <<stdout, located>>
    /\ UNCHANGED <<args, env_key, curr, saved_file, forecast_json, summary, aggVars>>

\* The resolve step by name: geocode_city, then the "Resolved location" line
GeocodeCity ==
    /\ pc = "geocode"
    /\ \E resp \in GeocodeResponses :
         /\ calls' = Append(calls, [api |-> "geocode", outcome |-> GeocodeOutcome(resp)])
         /\ IF GeocodeOutcome(resp) = "ok"
            THEN /\ located' = [lat |-> resp.data[1].lat, lon |-> resp.data[1].lon,
                                resolved_name |-> ResolvedName(resp.data[1])]
                 /\ stdout' = Append(stdout, ResolvedLine(located'))
                 /\ pc' = "fetch_current"
                 /\ UNCHANGED <<stderr, exit_code>>
            ELSE /\ ExceptExit(GeocodeOutcome(resp))
                 /\ UNCHANGED <<stdout, located>>
    /\ UNCHANGED <<args, env_key, curr, saved_file, forecast_json, summary, aggVars>>

\* What the current-weather endpoint can answer
CurrentResponses ==
    { [status |-> "http_error"],
      [status |-> "ok", json |-> [name |-> "Hyderabad", dt |-> 1704056400,
                                  timezone |-> 19800, main |-> [temp |-> 25]]],
      [status |-> "ok", json |-> [name |-> "London", dt |-> 1704067200,
                                  timezone |-> 0, main |-> [temp |-> 4]]] }

\* Mutant: the current weather is printed as soon as it is fetched.
FetchCurrentWeatherAndPrint ==
    /\ pc = "fetch_current"
    /\ \E resp \in CurrentResponses :
         /\ calls' = Append(calls, [api |-> "current",
                                    outcome |-> IF resp.status = "ok" THEN "ok"
                                                ELSE "HTTPError"])
         /\ IF resp.status = "ok"
            THEN /\ curr' = resp.json
                 /\ stdout' = stdout \o PrintCurrentWeather(resp.json, UnitsLabel(args.units))
                 /\ pc' = "fetch_forecast"
                 /\ UNCHANGED <<stderr, exit_code>>
            ELSE /\ ExceptExit("HTTPError")
                 /\ UNCHANGED <<curr, stdout>>
    /\ UNCHANGED <<args, env_key, located, saved_file, forecast_json, summary, aggVars>>

\* curr = fetch_current_weather(...)
FetchCurrentWeather ==
    /\ pc = "fetch_current"
    /\ \E resp \in CurrentResponses :
         /\ calls' = Append(calls, [api |-> "current",
                                    outcome |-> IF resp.status = "ok" THEN "ok"
                                                ELSE "HTTPError"])
         /\ IF resp.status = "ok"
            THEN /\ curr' = resp.json
                 /\ pc' = "fetch_forecast"
                 /\ UNCHANGED <<stderr, exit_code>>
            ELSE /\ ExceptExit("HTTPError")
                 /\ UNCHANGED curr
    /\ UNCHANGED <<args, env_key, located, stdout, saved_file, forecast_json, summary,
                   aggVars>>

\* Forecast lists the endpoint can answer with: none, one, two and three
\* dates, in and out of order, with and without a tie.
CliLists ==
    { <<>>,
      <<Sample(1703980800, 10, "clear sky", "01d")>>,
      <<Sample(1703980800, 10, "clear sky", "01d"),
        Sample(1704002400, 15, "light rain", None)>>,
      <<Sample(1703980800, 10, "clear sky", "01d"),
        Sample(1704056400, 20, "clear sky", None),
        Sample(1704067200, -5, "light rain", "10d")>>,
      <<Sample(1709208000, 7, "snow", "13d"),
        Sample(1704067200, -5, "light rain", "10d"),
        Sample(1703980800, 10, "clear sky", "01d")>> }

ForecastResponses ==
    {[status |-> "http_error"]}
    \cup {[status |-> "ok", json |-> Payload(lst, 19800)] : lst \in CliLists}

\* Whether open(args.save_json, "w") succeeds
FileOutcomes == IF Falsy(args.save_json) THEN {"ok"} ELSE {"ok", "OSError"}

\* forecast = fetch_forecast(...) and the rest of run_cli: the optional
\* save, print_current_weather, summarize_forecast, print_forecast_summary
FetchForecast ==
    /\ pc = "fetch_forecast"
    /\ \E resp \in ForecastResponses, io \in FileOutcomes :
         /\ calls' = Append(calls, [api |-> "forecast",
                                    outcome |-> IF resp.status = "ok" THEN "ok"
                                                ELSE "HTTPError"])
         /\ IF resp.status # "ok"
            THEN /\ io = "ok"
                 /\ ExceptExit("HTTPError")
                 /\ UNCHANGED <<forecast_json, saved_file, stdout, summary>>
            ELSE IF io # "ok"
            THEN /\ forecast_json' = resp.json
                 /\ ExceptExit(io)
                 /\ UNCHANGED <<saved_file, stdout, summary>>
            ELSE /\ forecast_json' = resp.json
                 /\ saved_file' = IF Falsy(args.save_json) THEN saved_file
                                  ELSE [resolved |-> located.resolved_name,
                                        current |-> curr,
                                        forecast |-> resp.json]
                 /\ \E iter \in SetIterations(SetsBuilt(resp.json)) :
                      /\ summary' = SummarizeForecast(resp.json, iter)
                      /\ stdout' =
                           stdout
                           \o (IF Falsy(args.save_json) THEN <<>>
                               ELSE <<[kind |-> "saved", path |-> args.save_json]>>)
                           \o PrintCurrentWeather(curr, UnitsLabel(args.units))
                           \o PrintForecastSummary(summary', UnitsLabel(args.units),
                                                   args.days)
                 /\ Exit(0)
                 /\ UNCHANGED stderr
    /\ UNCHANGED <<args, env_key, located, curr, aggVars>>

\* Values of --days: argparse's type=int takes any integer
DaysValues == {-1, 0, 1, 2, 5}

CommandLines ==
    [city : {None, "", "London"}, lat : {None, "17.4"}, lon : {None, "78.5"},
     api_key : {None, "k1"}, units : {"metric", "imperial", "standard"},
     save_json : {None, "out.json"}, days : DaysValues]

CliInit ==
    /\ args \in CommandLines
    /\ env_key \in {None, "k2"}
    /\ pc = "main"
    /\ calls = <<>>
    /\ located = Unset
    /\ curr = Unset
    /\ stdout = <<>>
    /\ stderr = <<>>
    /\ saved_file = Unset
    /\ exit_code = None
    /\ forecast_json = Unset
    /\ summary = Unset
    /\ shuffled_json = Unset
    /\ summary2 = Unset
    /\ phase = "cli"

CliNext == Main \/ GeocodeCity \/ FetchCurrentWeather \/ FetchForecast

CliSpec == CliInit /\ [][CliNext]_vars

----------------------------------------------------------------------------
(* Notions used by the properties of the text-mode run *)

NoLocation == args.lat = None /\ Falsy(args.city)

LatWithoutLon == args.lat # None /\ args.lon = None

NoCredential == Falsy(args.api_key) /\ Falsy(env_key)

UsageOrConfigError ==
    ParseArgsRejects \/ NoLocation \/ LatWithoutLon \/ NoCredential

CallSucceeded(api) ==
    \E i \in 1..Len(calls) : calls[i].api = api /\ calls[i].outcome = "ok"

CallFailed == \E i \in 1..Len(calls) : calls[i].outcome # "ok"

BothFetched == CallSucceeded("current") /\ CallSucceeded("forecast")

\* The report proper, and the note that the raw data were saved
ReportKinds == {"saved", "current", "forecast_header", "day", "blank"}

LinesOf(kind) == SelectSeq(stdout, LAMBDA line : line.kind = kind)

\* The network calls of one query, in order
ExpectedCalls ==
    IF args.lat # None /\ args.lon # None THEN <<"current", "forecast">>
    ELSE <<"geocode", "current", "forecast">>

(* C7 as stated: every usage or configuration error (no location, --lat
   without --lon, no API credential) ends the process with exit code 2
   before any network call; exit code 1 comes only from runtime failures
   and exit code 0 only from a fully successful run. *)
C7_ExitCodes ==
    exit_code # None =>
        /\ UsageOrConfigError => (exit_code = "2" /\ calls = <<>>)
        /\ exit_code = "1" =>
              /\ ~UsageOrConfigError
              /\ \E i \in 1..Len(stderr) : stderr[i].kind = "error"
        /\ exit_code = "0" =>
              /\ ~UsageOrConfigError
              /\ ~CallFailed
              /\ BothFetched
              /\ Len(LinesOf("current")) = 1
              /\ Len(LinesOf("forecast_header")) = 1

(* C8 as stated: nothing is rendered and nothing is persisted before both
   fetches have succeeded; a run whose resolve step or fetch fails ends with
   the error message only; the --save-json file is written only after both
   fetches succeeded and holds both payloads. *)
C8_NothingBeforeBothFetches ==
    (pc # "main" /\ exit_code # "2") =>
        /\ ~BothFetched => (stdout = <<>> /\ saved_file = Unset)
        /\ CallFailed => Len(stderr) = 1
        /\ saved_file # Unset =>
              /\ BothFetched
              /\ saved_file.current = curr
              /\ saved_file.forecast = forecast_json

(* C8 amended: before both fetches have succeeded no report line is printed
   and no file is written, the only output being the informational
   "Resolved location" line that follows the resolve step; a run whose
   resolve step or fetch fails ends with that line at most and the error
   message; the --save-json file is written only after both fetches
   succeeded and holds both payloads. *)
C8_NoReportBeforeBothFetches ==
    (pc # "main" /\ exit_code # "2") =>
        /\ ~BothFetched =>
              /\ Len(stdout) <= 1
              /\ \A i \in 1..Len(stdout) : stdout[i].kind = "resolved"
              /\ saved_file = Unset
        /\ CallFailed => (Len(stderr) = 1 /\ stderr[1].kind = "error")
        /\ saved_file # Unset =>
              /\ BothFetched
              /\ saved_file.current = curr
              /\ saved_file.forecast = forecast_json

\* --save-json given, the current weather fetched, the forecast fetch failed.
C8_Witness ==
    /\ exit_code = "1"
    /\ ~Falsy(args.save_json)
    /\ CallSucceeded("current")
    /\ Len(calls) >= 2
    /\ calls[Len(calls)].api = "forecast"
    /\ calls[Len(calls)].outcome # "ok"
    /\ saved_file = Unset

(* C9: the network calls of one query are resolve, current-weather fetch,
   forecast fetch, in that order, each at most once; after a failed one
   (the resolve step finding no match included) no call follows,
   aggregation and rendering do not run and the run ends with exit code 1;
   with both latitude and longitude given the resolve call is skipped. *)
C9_CallsInOrderNoRetry ==
    /\ Len(calls) <= Len(ExpectedCalls)
    /\ \A i \in 1..Len(calls) : calls[i].api = ExpectedCalls[i]
    /\ \A i \in 1..(Len(calls) - 1) : calls[i].outcome = "ok"
    /\ (args.lat # None /\ args.lon # None) =>
          \A i \in 1..Len(calls) : calls[i].api # "geocode"
    /\ CallFailed =>
          /\ exit_code = "1"
          /\ pc = "exited"
          /\ summary = Unset
          /\ \A i \in 1..Len(stdout) : stdout[i].kind \notin ReportKinds
    /\ (pc = "exited" /\ exit_code = "0") => Len(calls) = Len(ExpectedCalls)

\* A city resolved, then the current-weather fetch failing.
C9_Witness ==
    /\ exit_code = "1"
    /\ Len(calls) = 2
    /\ calls[1].api = "geocode"
    /\ calls[1].outcome = "ok"
    /\ calls[2].outcome # "ok"

(* C10 as stated: for every list of day summaries and every day count N
   accepted by --days, the forecast renderer displays exactly
   min(N, number of summaries) day entries, the first ones of the list in
   unchanged order, and the count announced in the header is the number of
   entries displayed. *)
C10_DaysShown ==
    exit_code = "0" =>
        LET shown == LinesOf("day")
            header == LinesOf("forecast_header")
        IN  /\ Len(header) = 1
            /\ Len(shown) = Min2(args.days, Len(summary))
            /\ \A i \in 1..Len(shown) :
                  i <= Len(summary) /\ shown[i].date = summary[i].date
            /\ header[1].n = Len(shown)

====
